---------------------------- MODULE Spec2Model ----------------------------
(***************************************************************************)
(* Model of the warehouse simulation in src/Spyder_Robo_Streamlit.py:      *)
(* graph construction, connectivity validation, the tracking simulator,    *)
(* proximity batching, priority ordering and dynamic rerouting.            *)
(*                                                                         *)
(* Numbers.  Python floats are modelled in fixed point: times (edge        *)
(* weights, travel times, delays) are whole centiseconds, and speeds,      *)
(* accelerations, the heatmap factor and the traffic multiplier are whole  *)
(* tenths (15 stands for 1.5).                                             *)
(*                                                                         *)
(* Nodes.  A storage node is the pair <<aisle, level>>.  The string        *)
(* "Fulfillment Zone" of the code is the pair fulfillment_zone below;      *)
(* IsTuple is the code's isinstance(node, tuple).                          *)
(***************************************************************************)
EXTENDS Integers, Sequences, FiniteSets, TLC

VARIABLES
    pc,                        \* position of the running function
    num_aisles, num_levels,    \* grid configuration
    heatmap,                   \* heatmap factor (tenths) of every storage node
    graph,                     \* warehouse_graph: [nodes, weight]
    num_robots, traffic_multiplier, extraction_time, num_transactions,
    orders,                    \* simulator: the generated orders
    transaction_id,            \* simulator: index of the next order (0-based)
    robot_positions,           \* simulator: robot index -> node
    robot_assignment_counter,
    tracking_data, log_issues, total_time, avg_transaction_time,
    last_path,                 \* simulator: total_path of the last order routed
    assigned,                  \* ghost: robot index -> orders assigned so far
    tamper,                    \* how the graph argument differs from the
                               \* builder's output ("none": it is that output)
    batch_size, batched_orders,\* batch_orders: argument and result
    skipped_orders,            \* ghost: the orders batch_orders dropped
    input_orders,              \* ghost: the orders argument before the call
    prioritized_orders,        \* prioritize_orders: result
    popped,                    \* ghost: the items pq.get() returned, in order
    source, target, blocked_nodes,  \* dynamic_rerouting: arguments
    rerouted_path,             \* dynamic_rerouting: result (None: <<>>)
    skip_anchors,              \* ghost: batch[-1] at each drop of batch_orders
    cur_batch,                 \* batch_orders: the batch being filled
    overlap_metrics,           \* main: result of analyze_robot_overlaps
    throughput, total_transactions, cost_per_transaction,
    distance_x, distance_z, heatmap_factor,
                               \* calculate_adjusted_travel_time: arguments
    adjusted_time              \* calculate_adjusted_travel_time: result

simVars == <<num_robots, traffic_multiplier, extraction_time, num_transactions,
             orders, transaction_id, robot_positions, robot_assignment_counter,
             tracking_data, log_issues, total_time, avg_transaction_time,
             last_path, assigned>>

cfgVars == <<num_aisles, num_levels, heatmap, graph, tamper>>

batchVars == <<batch_size, batched_orders, skipped_orders, input_orders, skip_anchors,
               cur_batch>>

prioVars == <<prioritized_orders, popped>>

rerouteVars == <<source, target, blocked_nodes, rerouted_path>>

metricVars == <<overlap_metrics, throughput, total_transactions, cost_per_transaction>>

travelVars == <<distance_x, distance_z, heatmap_factor, adjusted_time>>

fnVars == <<batchVars, prioVars, rerouteVars, metricVars, travelVars>>

vars == <<pc, cfgVars, simVars, fnVars>>

-----------------------------------------------------------------------------
(* Bounds of the model *)

MaxAisles == 2
MaxLevels == 3
\* storage nodes of a grid: num_aisles * num_levels <= MaxCells
MaxCells == 6
MaxRobots == 2
MaxOrders == 3
\* batch_orders: batch_size is at most MaxBatchSize
MaxBatchSize == 3
\* prioritize_orders: at most MaxPrioOrders orders, priorities 1 .. MaxPriority
MaxPrioOrders == 4
MaxPriority == 2
\* calculate_adjusted_travel_time: distances of 0 .. MaxDistance metres,
\* multiplier and factor from -0.5 to MaxFactorSteps / 2 in steps of 0.5
MaxDistance == 3
MaxFactorSteps == 6
\* dynamic_rerouting: at most MaxBlocked blocked nodes
MaxBlocked == 2

(* Program constants: the defaults of main() *)

aisle_length == 30
level_height == 5
\* accel_x = accel_z = 0.5, in tenths
accel_x == 5
accel_z == 5
\* speed_x = speed_z = 1.5 (upgrade_speed checked), in tenths
speed_x == 15
speed_z == 15
\* the traffic multiplier slider (1.0 .. 2.0) set to 1.5, in tenths
TrafficMultiplier == 15
\* the extraction time selectbox, seconds
ExtractionTime == 2

-----------------------------------------------------------------------------
(* Arithmetic helpers *)

\* mutant: max(1.0, x) replaced by x
NoClamp(a, b) == b

Max(a, b) == IF a >= b THEN a ELSE b

MinOf(S) == CHOOSE x \in S : \A y \in S : x <= y

RECURSIVE SqrtSearch(_, _, _)
\* largest r in lo..hi with r*r <= n, by bisection
SqrtSearch(n, lo, hi) ==
    IF lo >= hi THEN lo
    ELSE LET mid == (lo + hi + 1) \div 2
         IN  IF mid * mid <= n THEN SqrtSearch(n, mid, hi)
             ELSE SqrtSearch(n, lo, mid - 1)

\* floor of the square root: x ** 0.5 on a fixed-point argument
Isqrt(n) == SqrtSearch(n, 0, IF n < 46340 THEN n ELSE 46340)


Range(s) == {s[i] : i \in DOMAIN s}

-----------------------------------------------------------------------------
(* Nodes *)

fulfillment_zone == <<-1, -1>>

IsTuple(n) == n # fulfillment_zone

StorageNodes(A, L) == (0 .. A - 1) \X (0 .. L - 1)

-----------------------------------------------------------------------------
(* calculate_adjusted_travel_time, lines 13-19.                            *)
(* distance_x = dxNum / dxDen metres, distance_z = dzNum / dzDen metres;   *)
(* accelerations, multiplier and factor in tenths; result in centiseconds. *)
(* 2 * (d / (2 a)) ** 0.5 = (2 d / a) ** 0.5; in centiseconds the square   *)
(* root of 10^4 * 2 * d * 10 / a10.                                        *)

KinematicTime(dNum, dDen, a10) == Isqrt((200000 * dNum) \div (dDen * a10))

calculate_adjusted_travel_time(dxNum, dxDen, dzNum, dzDen, ax10, az10, tm10, hf10) ==
    LET horizontal_time == KinematicTime(dxNum, dxDen, ax10)
        vertical_time   == KinematicTime(dzNum, dzDen, az10)
        tm              == Max(10, tm10)
        hf              == Max(10, hf10)
    IN  ((horizontal_time + vertical_time) * tm * hf) \div 100

-----------------------------------------------------------------------------
(* Graphs: [nodes |-> set of nodes, weight |-> function from the directed  *)
(* edges <<u, v>> to their weight].                                        *)

Edges(g) == DOMAIN g.weight

\* heatmap.get((aisle, level), 1)
HeatmapGet(h, n) == IF n \in DOMAIN h THEN h[n] ELSE 10

\* mutant: the downward edge of line 43 left out
VerticalEdgesUpOnly(A, L) ==
    {<<n, <<n[1], n[2] + 1>>>> : n \in {m \in StorageNodes(A, L) : m[2] + 1 < L}}

\* lines 38-43: vertical edges, both directions, within one aisle
VerticalEdges(A, L) ==
    UNION {{<<n, <<n[1], n[2] + 1>>>>, <<<<n[1], n[2] + 1>>, n>>} :
              n \in {m \in StorageNodes(A, L) : m[2] + 1 < L}}

\* mutant: the first-or-last-level condition of line 46 dropped
HorizontalEdgesAnyLevel(A, L) ==
    UNION {{<<n, <<n[1] + 1, n[2]>>>>, <<<<n[1] + 1, n[2]>>, n>>} :
              n \in {m \in StorageNodes(A, L) : m[1] + 1 < A}}

\* lines 45-48: horizontal edges, both directions, at the first or last level
HorizontalEdges(A, L) ==
    UNION {{<<n, <<n[1] + 1, n[2]>>>>, <<<<n[1] + 1, n[2]>>, n>>} :
              n \in {m \in StorageNodes(A, L) :
                        m[1] + 1 < A /\ (m[2] = 0 \/ m[2] = L - 1)}}

\* mutant: line 60 dropped, only the edges out of the zone are added
ZoneEdgesOutOnly(A, L) ==
    {<<fulfillment_zone, n>> : n \in (0 .. A - 1) \X {0, L - 1}}

\* lines 52-61: fulfillment zone edges of level 0 and of the topmost level
ZoneEdges(A, L) ==
    UNION {{<<n, fulfillment_zone>>, <<fulfillment_zone, n>>} :
              n \in (0 .. A - 1) \X {0, L - 1}}

\* lines 54-59: the weight of the zone edges of storage node n
ZoneTravelTime(A, L, al, lh, ax, az, h, n) ==
    calculate_adjusted_travel_time(al * n[1], A, lh * n[2], L, ax, az,
                                   10, HeatmapGet(h, n))

create_warehouse_graph(A, L, al, lh, sx, sz, ax, az, h) ==
    LET V  == VerticalEdges(A, L)
        H  == HorizontalEdges(A, L)
        Z  == ZoneEdges(A, L)
    IN  [nodes  |-> StorageNodes(A, L) \cup {fulfillment_zone},
         weight |-> [e \in V \cup H \cup Z |->
                       IF e \in Z
                       THEN ZoneTravelTime(A, L, al, lh, ax, az, h,
                                IF e[1] = fulfillment_zone THEN e[2] ELSE e[1])
                       ELSE IF e \in H THEN (al * 1000) \div sx
                       ELSE (lh * 1000) \div sz]]

-----------------------------------------------------------------------------
(* networkx shortest paths.  nx.shortest_path(G, s, t, weight="weight")    *)
(* raises NodeNotFound when s or t is no node of G and NetworkXNoPath when *)
(* t cannot be reached from s; otherwise it returns one minimum-weight     *)
(* path, which one among several being the library's choice: ShortestPaths *)
(* is the set of all of them.                                              *)

\* the element of a one-element set; {e} binds the value of e once
Only(S) == CHOOSE x \in S : TRUE

\* one round of relaxation of the lightest-path weights d
RelaxStep(E, w, d) ==
    LET out   == {e \in E : e[1] \in DOMAIN d}
        reach == DOMAIN d \cup {e[2] : e \in out}
    IN  [v \in reach |->
           MinOf((IF v \in DOMAIN d THEN {d[v]} ELSE {}) \cup
                 {d[e[1]] + w[e] : e \in {f \in out : f[2] = v}})]

RECURSIVE Relax(_, _, _)
\* lightest-path weights from the nodes of DOMAIN d0, relaxed to the fixed point
Relax(E, w, d0) ==
    Only(UNION {{IF d2 = d THEN d ELSE Relax(E, w, d2) :
                    d2 \in {RelaxStep(E, w, d)}} : d \in {d0}})

\* node -> weight of a lightest path from s, for the nodes reachable from s
Dist(g, s) == Relax(Edges(g), g.weight, [v \in {s} |-> 0])

\* node -> number of edges of a shortest path from s (no weight argument)
HopDist(g, s) == Relax(Edges(g), [e \in Edges(g) |-> 1], [v \in {s} |-> 0])

RECURSIVE PathsInto(_, _, _, _, _)
\* the simple lightest paths from s to v none of whose nodes is in `later`
PathsInto(g, d, s, v, later) ==
    IF v = s THEN {<<s>>}
    ELSE UNION {{Append(p, v) : p \in PathsInto(g, d, s, e[1], later \cup {v})} :
                   e \in {f \in Edges(g) : /\ f[2] = v
                                           /\ f[1] \in DOMAIN d
                                           /\ f[1] \notin later \cup {v}
                                           /\ d[f[1]] + g.weight[f] = d[v]}}

\* what nx.shortest_path / nx.shortest_path_length does on (g, s, t), d
\* being the distances from s
OutcomeFrom(g, d, s, t) ==
    IF s \notin g.nodes \/ t \notin g.nodes THEN "NodeNotFound"
    ELSE IF t \notin DOMAIN d THEN "NetworkXNoPath"
    ELSE "path"

ShortestPaths(g, s, t) == UNION {PathsInto(g, d, s, t, {}) : d \in {Dist(g, s)}}

PathOutcome(g, s, t) == Only({OutcomeFrom(g, d, s, t) : d \in {Dist(g, s)}})

HasPath(g, s, t) == PathOutcome(g, s, t) = "path"

\* nx.shortest_path_length(G, source=s, target=t), for HasPath(g, s, t)
shortest_path_length(g, s, t) == HopDist(g, s)[t]

-----------------------------------------------------------------------------
(* validate_path, lines 133-156 *)

Abs(x) == IF x < 0 THEN -x ELSE x

\* lines 135-154 for the step path[i] -> path[i + 1]: TRUE when it passes
StepPasses(curr_node, next_node, L) ==
    IF ~IsTuple(curr_node) \/ ~IsTuple(next_node) THEN TRUE
    ELSE LET aisle_diff == Abs(curr_node[1] - next_node[1])
             level_diff == Abs(curr_node[2] - next_node[2])
         IN  /\ ~(aisle_diff > 0 /\ level_diff > 0)
             /\ ~(aisle_diff > 0 /\ curr_node[2] \notin {0, L - 1})
             /\ ~(level_diff > 0 /\ aisle_diff > 0)

validate_path(path, L) ==
    \A i \in 1 .. Len(path) - 1 : StepPasses(path[i], path[i + 1], L)

-----------------------------------------------------------------------------
(* validate_graph_connectivity, lines 87-94: TRUE when it raises ValueError *)

validate_graph_connectivity(g, A, L) ==
    \E n \in StorageNodes(A, L) :
        PathOutcome(g, n, fulfillment_zone) = "NetworkXNoPath"

-----------------------------------------------------------------------------
(* The graph argument of the functions that take one.  main() passes the   *)
(* builder's output; the functions accept any graph, and the other values  *)
(* of `tamper` stand for such arguments: the builder's graph with every    *)
(* edge of one storage node removed, or with one diagonal edge added.      *)

IsolateNode(g, n) ==
    [nodes  |-> g.nodes,
     weight |-> [e \in {f \in Edges(g) : f[1] # n /\ f[2] # n} |-> g.weight[e]]]

AddEdge(g, u, v, w) ==
    [nodes  |-> g.nodes \cup {u, v},
     weight |-> [e \in Edges(g) \cup {<<u, v>>} |->
                   IF e = <<u, v>> THEN w ELSE g.weight[e]]]

BuiltGraph(A, L, h) ==
    create_warehouse_graph(A, L, aisle_length, level_height, speed_x, speed_z,
                           accel_x, accel_z, h)

\* the tampered arguments are derived from the builder's graph of the
\* heatmap of factor 1.0
Tampers(A, L, h) ==
    {"none"} \cup (IF \A n \in DOMAIN h : h[n] = 10 THEN {"isolated"} ELSE {})
             \cup (IF A >= 2 /\ L >= 2 /\ \A n \in DOMAIN h : h[n] = 10
                   THEN {"diagonal"} ELSE {})

GraphArgument(A, L, h, t) ==
    LET g == BuiltGraph(A, L, h)
    IN  CASE t = "none"     -> g
          [] t = "isolated" -> IsolateNode(g, <<A - 1, L - 1>>)
          [] t = "diagonal" -> AddEdge(g, <<0, 0>>, <<1, 1>>, 0)

\* generate_heatmap, lines 9-10: one factor of 1.0 .. 3.0 per storage node
HeatFactors == {10, 30}

generate_heatmap(A, L) == {[n \in StorageNodes(A, L) |-> f] : f \in HeatFactors}

-----------------------------------------------------------------------------
(* simulate_transactions_with_tracking, lines 162-247 *)

\* line 175: the number of levels, read from the graph
GraphLevels(g) ==
    LET levels == {n[2] : n \in {m \in g.nodes : IsTuple(m)}}
    IN  (CHOOSE l \in levels : \A k \in levels : k <= l) + 1

\* lines 178-181: random.choices over the storage nodes of the graph, k orders
RECURSIVE Choices(_, _)
Choices(S, k) ==
    IF k = 0 THEN {<<>>}
    ELSE {Append(s, x) : s \in Choices(S, k - 1), x \in S}

\* mutant: the per-unit delay is drawn from a wider range
DelayJitterWide == {10, 40}

\* line 224: random.uniform(1.5, 3.5), in tenths: the ends of the range
DelayJitter == {15, 35}

\* mutant: the counter is not used, every order goes to the first robot
ChosenRobotFirst(counter, R) == 0

\* line 189
ChosenRobot(counter, R) == counter % R

\* mutant: the paths are counted by their edges, not their nodes
TransactionTimeEdges(p1, p2, tm, ext) ==
    (Len(p1) - 1) * tm * 10 + ext * 100 + (Len(p2) - 1) * tm * 10

\* lines 209-213, in centiseconds
TransactionTime(p1, p2, tm, ext) == Len(p1) * tm * 10 + ext * 100 + Len(p2) * tm * 10

\* mutant: every earlier record counts, whatever its storage node
OverlapsAnyNode(R, log, storage_node) == IF R > 1 THEN Len(log) ELSE 0

\* lines 217-224: overlaps of an order for storage_node
Overlaps(R, log, storage_node) ==
    IF R > 1
    THEN Cardinality({i \in DOMAIN log : log[i].storage_node = storage_node})
    ELSE 0

\* mutant: the robot stays at the storage node of its order
RobotStays(positions, chosen_robot, storage_node) ==
    [positions EXCEPT ![chosen_robot] = storage_node]

\* line 239: the robot is put back at the fulfillment zone
RobotReturned(positions, chosen_robot, storage_node) ==
    [positions EXCEPT ![chosen_robot] = fulfillment_zone]

\* main(), lines 536-562: the configuration and the graph
InitWarehouse ==
    /\ num_aisles \in 1 .. MaxAisles
    /\ num_levels \in 1 .. MaxLevels
    /\ num_aisles * num_levels <= MaxCells
    /\ heatmap \in generate_heatmap(num_aisles, num_levels)
    /\ tamper \in Tampers(num_aisles, num_levels, heatmap)
    /\ graph = GraphArgument(num_aisles, num_levels, heatmap, tamper)

\* mutant: the except clause swallows the exception without logging
LogNoPathDropped(log, id) == log

\* line 242
LogNoPath(log, id) == Append(log, <<"no_path", id>>)

\* line 205
LogInvalidPath(log, id) == Append(log, <<"invalid_path", id>>)

\* mutant: the empty run returns without an issue
LogNoOrdersDropped(log) == log

\* line 184
LogNoOrders(log) == Append(log, <<"no_orders", 0>>)

SimInitial ==
    /\ orders = <<>>
    /\ transaction_id = 0
    /\ robot_positions = <<>>
    /\ robot_assignment_counter = 0
    /\ tracking_data = <<>>
    /\ log_issues = <<>>
    /\ total_time = 0
    /\ avg_transaction_time = 0
    /\ last_path = <<>>
    /\ assigned = <<>>

\* the variables of the other functions, while they are not running
BatchIdle ==
    /\ batch_size = 0
    /\ batched_orders = <<>>
    /\ skipped_orders = <<>>
    /\ input_orders = <<>>
    /\ skip_anchors = <<>>
    /\ cur_batch = <<>>

PrioIdle ==
    /\ prioritized_orders = <<>>
    /\ popped = <<>>

RerouteIdle ==
    /\ source = fulfillment_zone
    /\ target = fulfillment_zone
    /\ blocked_nodes = {}
    /\ rerouted_path = <<>>

MetricsIdle ==
    /\ overlap_metrics = <<>>
    /\ throughput = 0
    /\ total_transactions = 0
    /\ cost_per_transaction = 0

TravelIdle ==
    /\ distance_x = 0
    /\ distance_z = 0
    /\ heatmap_factor = 10
    /\ adjusted_time = 0

FnIdle == BatchIdle /\ PrioIdle /\ RerouteIdle /\ MetricsIdle /\ TravelIdle

\* the simulator's variables, while it is not running
SimIdle ==
    /\ num_robots = 1
    /\ num_transactions = 0
    /\ traffic_multiplier = TrafficMultiplier
    /\ extraction_time = ExtractionTime
    /\ SimInitial

InitSim ==
    /\ pc = "start"
    /\ InitWarehouse
    /\ FnIdle
    /\ num_robots \in 1 .. MaxRobots
    /\ num_transactions \in 0 .. MaxOrders
    /\ traffic_multiplier = TrafficMultiplier
    /\ extraction_time = ExtractionTime
    /\ SimInitial

\* main(), lines 558-567: the connectivity check before the simulation
MainValidate ==
    /\ pc = "start"
    /\ pc' = IF validate_graph_connectivity(graph, num_aisles, num_levels)
             THEN "aborted" ELSE "validated"
    /\ UNCHANGED <<cfgVars, fnVars, simVars>>

\* lines 168-185: initialisation and order generation
SimBegin ==
    /\ pc \in {"start", "validated"}
    /\ robot_positions' = [r \in 0 .. num_robots - 1 |-> fulfillment_zone]
    /\ assigned' = [r \in 0 .. num_robots - 1 |-> 0]
    /\ orders' \in Choices({n \in graph.nodes : IsTuple(n)}, num_transactions)
    /\ IF orders' = <<>>
       THEN /\ log_issues' = LogNoOrders(log_issues)
            /\ pc' = "done"
       ELSE /\ log_issues' = log_issues
            /\ pc' = "loop"
    /\ UNCHANGED <<cfgVars, fnVars, num_robots, traffic_multiplier, extraction_time,
                   num_transactions, transaction_id, robot_assignment_counter,
                   tracking_data, total_time, avg_transaction_time, last_path>>

\* lines 187-242: one iteration of the loop over the orders.  Only
\* NetworkXNoPath is caught (line 241): NodeNotFound leaves the function.
ProcessOrder ==
    /\ pc = "loop"
    /\ transaction_id < Len(orders)
    /\ IF num_robots = 0
       THEN \* line 189: the modulo by zero raises ZeroDivisionError, which the
            \* except clause of line 241 does not catch
            /\ pc' = "ZeroDivisionError"
            /\ UNCHANGED <<robot_assignment_counter, assigned, transaction_id,
                           tracking_data, log_issues, total_time, robot_positions,
                           last_path>>
       ELSE
       LET storage_node == orders[transaction_id + 1]
           chosen_robot == ChosenRobot(robot_assignment_counter, num_robots)
           start_node   == robot_positions[chosen_robot]
           L            == GraphLevels(graph)
       IN  \E dOut \in {Dist(graph, start_node)}, dBack \in {Dist(graph, storage_node)} :
           LET
           out          == OutcomeFrom(graph, dOut, start_node, storage_node)
           back         == OutcomeFrom(graph, dBack, storage_node, fulfillment_zone)
           raised       == IF out # "path" THEN out ELSE back
           IN
           /\ robot_assignment_counter' = robot_assignment_counter + 1
           /\ assigned' = [assigned EXCEPT ![chosen_robot] = @ + 1]
           /\ IF raised = "NodeNotFound"
              THEN /\ pc' = "crashed"
                   /\ UNCHANGED <<transaction_id, tracking_data, log_issues,
                                  total_time, robot_positions, last_path>>
              ELSE
               /\ pc' = pc
               /\ transaction_id' = transaction_id + 1
               /\ IF raised = "NetworkXNoPath"
                  THEN \* lines 241-242
                       /\ log_issues' = LogNoPath(log_issues, transaction_id)
                       /\ UNCHANGED <<tracking_data, total_time, robot_positions, last_path>>
                  ELSE \E p1 \in PathsInto(graph, dOut, start_node, storage_node, {}),
                          p2 \in PathsInto(graph, dBack, storage_node,
                                           fulfillment_zone, {}) :
                         LET total_path == p1 \o p2
                         IN  /\ last_path' = total_path
                             /\ IF ~validate_path(total_path, L)
                                THEN \* lines 204-206
                                     /\ log_issues' = LogInvalidPath(log_issues, transaction_id)
                                     /\ UNCHANGED <<tracking_data, total_time, robot_positions>>
                                ELSE \E jitter \in DelayJitter :
                                       LET transaction_time ==
                                               TransactionTime(p1, p2, traffic_multiplier,
                                                               extraction_time)
                                           overlaps ==
                                               Overlaps(num_robots, tracking_data, storage_node)
                                           delay == IF num_robots > 1
                                                    THEN overlaps * jitter * traffic_multiplier
                                                    ELSE 0
                                       IN  /\ total_time' = total_time + transaction_time
                                           /\ tracking_data' = Append(tracking_data,
                                                [transaction_id     |-> transaction_id,
                                                 robot_id           |-> chosen_robot,
                                                 start_node         |-> start_node,
                                                 storage_node       |-> storage_node,
                                                 travel_time        |-> transaction_time,
                                                 overlapping_robots |-> overlaps,
                                                 delay              |-> delay,
                                                 total_transaction_time |->
                                                     transaction_time + delay])
                                           /\ robot_positions' =
                                                RobotReturned(robot_positions,
                                                    chosen_robot, storage_node)
                                           /\ log_issues' = log_issues
    /\ UNCHANGED <<cfgVars, fnVars, num_robots, traffic_multiplier, extraction_time,
                   num_transactions, orders, avg_transaction_time>>

\* lines 244-247: the average and the return
SimReturn ==
    /\ pc = "loop"
    /\ transaction_id = Len(orders)
    /\ avg_transaction_time' = IF num_transactions > 0
                               THEN total_time \div num_transactions ELSE 0
    /\ pc' = "done"
    /\ UNCHANGED <<cfgVars, fnVars, num_robots, traffic_multiplier, extraction_time,
                   num_transactions, orders, transaction_id, robot_positions,
                   robot_assignment_counter, tracking_data, log_issues, total_time,
                   last_path, assigned>>

NextSim == MainValidate \/ SimBegin \/ ProcessOrder \/ SimReturn

Spec == InitSim /\ [][NextSim]_vars /\ WF_vars(NextSim)

-----------------------------------------------------------------------------
(* Claims about the graph and the simulator, checked under Spec *)

\* the movement rules in the words of the specification: between two storage
\* nodes a step changes the aisle or the level, not both, and a step that
\* changes the aisle starts at the first or the last level
StepLegal(u, v, L) ==
    (IsTuple(u) /\ IsTuple(v)) =>
        /\ ~(u[1] # v[1] /\ u[2] # v[2])
        /\ (u[1] # v[1] => (u[2] = 0 \/ u[2] = L - 1))

PathLegal(path, L) ==
    \A i \in 1 .. Len(path) - 1 : StepLegal(path[i], path[i + 1], L)

IssueKinds == {log_issues[i][1] : i \in DOMAIN log_issues}

\* C1: on the builder's graph every path the simulator concatenates for an
\* order passes validate_path and obeys the movement rules, and no
\* 'Invalid path detected' issue is ever logged.
C1_PathsLegal ==
    tamper = "none" =>
        /\ validate_path(last_path, num_levels)
        /\ PathLegal(last_path, num_levels)
        /\ "invalid_path" \notin IssueKinds

\* C1 witness: on a builder's graph with a middle level an order was recorded
\* whose path moves between two aisles.
C1_Witness ==
    /\ tamper = "none"
    /\ num_levels >= 3
    /\ tracking_data # <<>>
    /\ \E i \in 1 .. Len(last_path) - 1 :
          /\ IsTuple(last_path[i]) /\ IsTuple(last_path[i + 1])
          /\ last_path[i][1] # last_path[i + 1][1]

AllConnected(g, A, L) ==
    \A n \in StorageNodes(A, L) : HasPath(g, n, fulfillment_zone)

\* C2: in the builder's graph every storage node has a directed path to the
\* Fulfillment Zone and the connectivity check passes; on a graph with a
\* storage node that has none the check raises, and main() returns before
\* anything is simulated.
C2_Connectivity ==
    /\ (pc = "start" /\ tamper = "none") =>
           AllConnected(graph, num_aisles, num_levels)
    /\ pc = "validated" => AllConnected(graph, num_aisles, num_levels)
    /\ pc = "aborted" =>
           /\ tamper # "none"
           /\ ~AllConnected(graph, num_aisles, num_levels)
           /\ orders = <<>> /\ tracking_data = <<>> /\ log_issues = <<>>
           /\ transaction_id = 0 /\ robot_assignment_counter = 0

\* C2 witness: the check has passed on the builder's graph of a grid with
\* two aisles and a middle level.
C2_Witness ==
    pc = "validated" /\ tamper = "none" /\ num_aisles >= 2 /\ num_levels >= 3

\* C3: the numbers of orders assigned to any two robots differ by at most 1
\* (at every point of the run, so also after the last order).
C3_RoundRobinBalanced ==
    \A r1 \in DOMAIN assigned, r2 \in DOMAIN assigned :
        assigned[r1] - assigned[r2] <= 1

\* C3 witness: three orders have been dealt to two robots, two and one.
C3_Witness ==
    /\ pc = "done" /\ num_robots = 2 /\ num_transactions = 3
    /\ assigned[0] = 2 /\ assigned[1] = 1

\* C4: the overlap count of every record is the number of records before it
\* in the log with the same storage node when there are several robots, and 0
\* with one robot; the first record has overlap count 0.
C4_OverlapCount ==
    \A i \in DOMAIN tracking_data :
        /\ tracking_data[i].overlapping_robots =
              IF num_robots > 1
              THEN Cardinality({j \in 1 .. i - 1 :
                      tracking_data[j].storage_node = tracking_data[i].storage_node})
              ELSE 0
        /\ (i = 1 => tracking_data[i].overlapping_robots = 0)

\* C4 witness: with two robots the third record for one storage node has
\* overlap count 2, after a first record with overlap count 0.
C4_Witness ==
    /\ num_robots = 2 /\ Len(tracking_data) = 3
    /\ tracking_data[1].overlapping_robots = 0
    /\ tracking_data[3].overlapping_robots = 2

\* C5: a run over N >= 1 orders never ends in an exception and never stops
\* before its return; while it runs every processed order has exactly one
\* record or one issue, and at the return records plus issues number N.
C5_RunCompletes ==
    /\ pc # "crashed"
    /\ pc \in {"start", "validated", "loop"} => ENABLED NextSim
    /\ pc = "loop" =>
           /\ transaction_id <= num_transactions
           /\ Len(tracking_data) + Len(log_issues) = transaction_id
    /\ (pc = "done" /\ num_transactions >= 1) =>
           /\ transaction_id = num_transactions
           /\ Len(tracking_data) + Len(log_issues) = num_transactions

\* C5 witness: a finished run of three orders on a graph with an unreachable
\* storage node, with a skipped order and a recorded one.
C5_Witness ==
    /\ pc = "done" /\ tamper = "isolated" /\ num_transactions = 3
    /\ "no_path" \in IssueKinds
    /\ tracking_data # <<>>

-----------------------------------------------------------------------------
(* dynamic_rerouting, lines 449-473.  blocked_nodes is modelled as the set  *)
(* of its elements; None and the empty list both skip the removal (line    *)
(* 465), which is the removal of the empty set.                            *)

\* mutant: the blocked nodes stay in the copy
RemoveNothing(g, nodes) == g

\* line 466: Graph.remove_nodes_from removes the nodes and their edges and
\* ignores the nodes that are not in the graph
remove_nodes_from(g, nodes) ==
    [nodes  |-> g.nodes \ nodes,
     weight |-> [e \in {f \in Edges(g) : f[1] \notin nodes /\ f[2] \notin nodes}
                   |-> g.weight[e]]]

\* line 469: what nx.shortest_path does on the copy.  A source that is not
\* in the graph raises NodeNotFound; for a target that is not in it the
\* exception depends on the networkx release, NodeNotFound (bidirectional
\* Dijkstra) or NetworkXNoPath (single-source Dijkstra)
RerouteOutcomes(g, d, s, t) ==
    IF s \in g.nodes /\ t \notin g.nodes
    THEN {"NodeNotFound", "NetworkXNoPath"}
    ELSE {OutcomeFrom(g, d, s, t)}

\* the return value None
None == <<>>

\* line 472
LogRerouteFailed(log) == Append(log, <<"rerouting_failed", 0>>)

InitReroute ==
    /\ pc = "start"
    /\ InitWarehouse
    /\ SimIdle
    /\ BatchIdle
    /\ PrioIdle
    /\ MetricsIdle
    /\ TravelIdle
    /\ source \in graph.nodes
    /\ target \in graph.nodes
    /\ blocked_nodes \in {b \in SUBSET graph.nodes : Cardinality(b) <= MaxBlocked}
    /\ rerouted_path = None

\* Graph objects.  objs is the sequence of the graph objects in memory and
\* a reference is an index of it; the caller's graph is the object 1.

\* mutant: temp_graph is the caller's graph itself
CopyAliased(objs, ref) == [objs |-> objs, ref |-> ref]

\* line 464: graph.copy() makes a new object with the nodes, the edges and
\* the weights of the graph
graph_copy(objs, ref) == [objs |-> Append(objs, objs[ref]), ref |-> Len(objs) + 1]

\* the call: "returned" with a path or with None after the error message;
\* "raised" when an exception other than NetworkXNoPath leaves the function.
\* The caller's graph afterwards is what the object 1 has become.
dynamic_rerouting ==
    /\ pc = "start"
    /\ \E copied \in {graph_copy(<<graph>>, 1)} :
       \E objs \in {[copied.objs EXCEPT
                        ![copied.ref] = remove_nodes_from(@, blocked_nodes)]} :
       \E temp_graph \in {objs[copied.ref]} :
         /\ graph' = objs[1]
         /\ \E d \in {Dist(temp_graph, source)} :
           \E outcome \in RerouteOutcomes(temp_graph, d, source, target) :
             CASE outcome = "path" ->
                    /\ rerouted_path' \in PathsInto(temp_graph, d, source, target, {})
                    /\ log_issues' = log_issues
                    /\ pc' = "returned"
               [] outcome = "NetworkXNoPath" ->
                    /\ rerouted_path' = None
                    /\ log_issues' = LogRerouteFailed(log_issues)
                    /\ pc' = "returned"
               [] outcome = "NodeNotFound" ->
                    /\ pc' = "raised"
                    /\ UNCHANGED <<rerouted_path, log_issues>>
    /\ UNCHANGED <<num_aisles, num_levels, heatmap, tamper,
                   num_robots, traffic_multiplier, extraction_time,
                   num_transactions, orders, transaction_id, robot_positions,
                   robot_assignment_counter, tracking_data, total_time,
                   avg_transaction_time, last_path, assigned,
                   batchVars, prioVars, metricVars, travelVars,
                   source, target, blocked_nodes>>

SpecReroute == InitReroute /\ [][dynamic_rerouting]_vars

-----------------------------------------------------------------------------
(* Claims about dynamic_rerouting, checked under SpecReroute *)

\* C6: a path returned by dynamic_rerouting for a non-empty blocked set
\* contains none of the blocked nodes, starts at source and ends at target.
C6_ReroutedPathAvoidsBlocked ==
    (pc = "returned" /\ rerouted_path # None /\ blocked_nodes # {}) =>
        /\ \A i \in DOMAIN rerouted_path : rerouted_path[i] \notin blocked_nodes
        /\ rerouted_path[1] = source
        /\ rerouted_path[Len(rerouted_path)] = target

\* a path was returned that is a detour: it is no shortest path of the
\* graph with the blocked nodes still in it
C6_Witness ==
    /\ pc = "returned"
    /\ rerouted_path # None
    /\ blocked_nodes # {}
    /\ rerouted_path \notin ShortestPaths(graph, source, target)

\* the nodes reachable from the nodes of `seen` along edges that avoid B
RECURSIVE ReachAvoiding(_, _, _)
ReachAvoiding(g, B, seen) ==
    LET more == {e[2] : e \in {f \in Edges(g) : f[1] \in seen /\ f[2] \notin B}}
                \ seen
    IN  IF more = {} THEN seen ELSE ReachAvoiding(g, B, seen \cup more)

DisconnectedAfterBlocking ==
    \/ source \in blocked_nodes
    \/ target \in blocked_nodes
    \/ target \notin ReachAvoiding(graph, blocked_nodes, {source})

\* C7: whenever source and target are disconnected once the blocked nodes
\* are removed, also when the blocked set contains the source or the target,
\* dynamic_rerouting returns None after logging and no exception escapes.
C7_FailureIsRecoverable ==
    (pc # "start" /\ DisconnectedAfterBlocking) =>
        /\ pc = "returned"
        /\ rerouted_path = None
        /\ log_issues = <<<<"rerouting_failed", 0>>>>

-----------------------------------------------------------------------------
(* batch_orders, lines 68-84 *)

\* mutant: orders.remove leaves the list as it is
RemoveNone(s, i) == s

\* list.pop(i) and list.remove(x): the list without its element at index i
RemoveAt(s, i) == SubSeq(s, 1, i - 1) \o SubSeq(s, i + 1, Len(s))

\* lines 72-75: min() calls the key on every order, and the key raises
\* NetworkXNoPath for an order that cannot be reached from batch[-1]
ClosestRaises(g, last, rest) ==
    \E hops \in {HopDist(g, last)} : \E i \in DOMAIN rest : rest[i] \notin DOMAIN hops

\* mutant: min() returns the first order, whatever its distance
FirstIndex(g, last, rest) == 1

\* lines 72-75: the index of the order min() returns, the first of the
\* orders with the fewest hops from batch[-1]
ClosestIndex(g, last, rest) ==
    Only({CHOOSE i \in DOMAIN rest :
              /\ \A j \in DOMAIN rest : hops[rest[i]] <= hops[rest[j]]
              /\ \A j \in 1 .. i - 1 : hops[rest[j]] > hops[rest[i]]
          : hops \in {HopDist(g, last)}})

\* mutant: the batch takes one order more than batch_size
BatchOpenOneMore(batch, B, rest) == Len(batch) < B + 1 /\ rest # <<>>

\* line 70: the condition of the inner loop
BatchOpen(batch, B, rest) == Len(batch) < B /\ rest # <<>>

\* lines 70-81: the inner loop, from a batch and the remaining orders to the
\* closed batch, the orders left and the orders skipped, each skipped order
\* with the batch[-1] of the moment
RECURSIVE FillBatch(_, _, _, _, _)
FillBatch(g, batch, rest, skipped, B) ==
    IF ~BatchOpen(batch, B, rest)
    THEN [batch |-> batch, orders |-> rest, skipped |-> skipped]
    ELSE IF ClosestRaises(g, batch[Len(batch)], rest)
         THEN FillBatch(g, batch, Tail(rest),
                        Append(skipped, <<Head(rest), batch[Len(batch)]>>), B)
         ELSE LET i == ClosestIndex(g, batch[Len(batch)], rest)
              IN  FillBatch(g, Append(batch, rest[i]), RemoveAt(rest, i), skipped, B)

\* lines 68-84: the outer loop
RECURSIVE BatchLoop(_, _, _, _, _)
BatchLoop(g, rest, batched, skipped, B) ==
    IF rest = <<>>
    THEN [batched_orders |-> batched, orders |-> rest, skipped |-> skipped]
    ELSE LET filled == FillBatch(g, <<Head(rest)>>, Tail(rest), skipped, B)
         IN  BatchLoop(g, filled.orders, Append(batched, filled.batch),
                       filled.skipped, B)

InitBatch ==
    /\ pc = "start"
    /\ InitWarehouse
    /\ num_robots = 1
    /\ num_transactions = 0
    /\ traffic_multiplier = TrafficMultiplier
    /\ extraction_time = ExtractionTime
    /\ \E n \in 0 .. MaxOrders :
          orders \in Choices({m \in graph.nodes : IsTuple(m)}, n)
    /\ transaction_id = 0
    /\ robot_positions = <<>>
    /\ robot_assignment_counter = 0
    /\ tracking_data = <<>>
    /\ log_issues = <<>>
    /\ total_time = 0
    /\ avg_transaction_time = 0
    /\ last_path = <<>>
    /\ assigned = <<>>
    /\ batch_size \in 0 .. MaxBatchSize
    /\ batched_orders = <<>>
    /\ skipped_orders = <<>>
    /\ input_orders = orders
    /\ skip_anchors = <<>>
    /\ cur_batch = <<>>
    /\ PrioIdle
    /\ RerouteIdle
    /\ MetricsIdle
    /\ TravelIdle

\* the call; the function empties the list it is given
batch_orders ==
    /\ pc = "start"
    /\ \E out \in {BatchLoop(graph, orders, <<>>, <<>>, batch_size)} :
          /\ batched_orders' = out.batched_orders
          /\ orders' = out.orders
          /\ skipped_orders' = [i \in DOMAIN out.skipped |-> out.skipped[i][1]]
          /\ skip_anchors' = [i \in DOMAIN out.skipped |-> out.skipped[i][2]]
    /\ pc' = "returned"
    /\ UNCHANGED <<cfgVars, num_robots, traffic_multiplier, extraction_time,
                   num_transactions, transaction_id, robot_positions,
                   robot_assignment_counter, tracking_data, log_issues, total_time,
                   avg_transaction_time, last_path, assigned,
                   batch_size, input_orders, cur_batch,
                   prioVars, rerouteVars, metricVars, travelVars>>

SpecBatch == InitBatch /\ [][batch_orders]_vars

-----------------------------------------------------------------------------
(* Claims about batch_orders, checked under SpecBatch *)

\* the number of times x occurs in the sequence s
Count(s, x) == Cardinality({i \in DOMAIN s : s[i] = x})

\* the number of times x occurs in the batches
CountInBatches(batches, x) ==
    Cardinality({ij \in {<<i, j>> : i \in DOMAIN batches, j \in 1 .. MaxOrders} :
                   ij[2] \in DOMAIN batches[ij[1]] /\ batches[ij[1]][ij[2]] = x})

\* C8: for a batch size B >= 1, the batches partition the input orders
\* minus the skipped ones as a multiset, every batch is non-empty and has at
\* most B orders, and there are ceil(n' / B) batches for the n' orders kept.
C8_BatchesPartition ==
    (pc = "returned" /\ batch_size >= 1) =>
        /\ \A x \in Range(input_orders) \cup Range(skipped_orders)
                  \cup UNION {Range(batched_orders[i]) : i \in DOMAIN batched_orders} :
               Count(input_orders, x) =
                   CountInBatches(batched_orders, x) + Count(skipped_orders, x)
        /\ \A i \in DOMAIN batched_orders :
               batched_orders[i] # <<>> /\ Len(batched_orders[i]) <= batch_size
        /\ Len(batched_orders) =
               (Len(input_orders) - Len(skipped_orders) + batch_size - 1) \div batch_size

\* a call with a batch size of two or more that skipped an order and put
\* two orders or more in one batch
C8_Witness ==
    /\ pc = "returned"
    /\ batch_size >= 2
    /\ skipped_orders # <<>>
    /\ \E i \in DOMAIN batched_orders : Len(batched_orders[i]) >= 2

-----------------------------------------------------------------------------
(* prioritize_orders, lines 425-446.  queue.PriorityQueue keeps its items   *)
(* in a list ordered by heapq: put is heappush and get is heappop, and the *)
(* items (priority, location) are compared as Python compares tuples.      *)
(* Positions are 0-based as in heapq; heap[pos] is the element pos + 1 of  *)
(* the sequence.                                                           *)

\* location < location for two storage nodes
LocationLess(m, n) == m[1] < n[1] \/ (m[1] = n[1] /\ m[2] < n[2])

\* mutant: the items are compared by their location alone
ItemLessByLocation(x, y) == LocationLess(x[2], y[2])

\* (priority, location) < (priority, location)
ItemLess(x, y) == x[1] < y[1] \/ (x[1] = y[1] /\ LocationLess(x[2], y[2]))

HeapSet(heap, pos, item) == [heap EXCEPT ![pos + 1] = item]

\* heapq._siftdown(heap, startpos, pos), newitem being heap[pos]
RECURSIVE siftdown(_, _, _, _)
siftdown(heap, startpos, pos, newitem) ==
    IF pos > startpos
    THEN LET parentpos == (pos - 1) \div 2
             parent == heap[parentpos + 1]
         IN  IF ItemLess(newitem, parent)
             THEN siftdown(HeapSet(heap, pos, parent), startpos, parentpos, newitem)
             ELSE HeapSet(heap, pos, newitem)
    ELSE HeapSet(heap, pos, newitem)

\* heapq._siftup(heap, pos): the smaller child moves up until a leaf is
\* reached, then newitem is sifted down from there
RECURSIVE siftup(_, _, _, _)
siftup(heap, startpos, pos, newitem) ==
    LET endpos == Len(heap)
        childpos == 2 * pos + 1
        rightpos == childpos + 1
    IN  IF childpos < endpos
        THEN LET smaller == IF rightpos < endpos
                               /\ ~ItemLess(heap[childpos + 1], heap[rightpos + 1])
                            THEN rightpos ELSE childpos
             IN  siftup(HeapSet(heap, pos, heap[smaller + 1]), startpos, smaller, newitem)
        ELSE siftdown(HeapSet(heap, pos, newitem), startpos, pos, newitem)

\* line 438: pq.put(item)
heappush(heap, item) == siftdown(Append(heap, item), 0, Len(heap), item)

\* line 443: pq.get(), the item returned and the heap left
heappop(heap) ==
    LET lastelt == heap[Len(heap)]
        rest == SubSeq(heap, 1, Len(heap) - 1)
    IN  IF rest # <<>>
        THEN [item |-> rest[1], heap |-> siftup(HeapSet(rest, 0, lastelt), 0, 0, lastelt)]
        ELSE [item |-> lastelt, heap |-> rest]

\* lines 436-438: every order (location, priority) is put as (priority, location)
RECURSIVE PutAll(_, _)
PutAll(os, pq) ==
    IF os = <<>> THEN pq
    ELSE PutAll(Tail(os), heappush(pq, <<Head(os)[2], Head(os)[1]>>))

\* lines 441-444: the items in the order pq.get() returns them
RECURSIVE GetAll(_, _)
GetAll(pq, got) ==
    IF pq = <<>> THEN got
    ELSE LET out == heappop(pq) IN GetAll(out.heap, Append(got, out.item))

\* the orders (location, priority) over the storage nodes S, n of them
PriorityOrders(S, n) == Choices(S \X (1 .. MaxPriority), n)

\* the locations are the storage nodes of a one-level warehouse
InitPrio ==
    /\ pc = "start"
    /\ num_aisles = MaxAisles
    /\ num_levels = 1
    /\ heatmap = [n \in StorageNodes(num_aisles, num_levels) |-> 10]
    /\ tamper = "none"
    /\ graph = GraphArgument(num_aisles, num_levels, heatmap, tamper)
    /\ num_robots = 1
    /\ num_transactions = 0
    /\ traffic_multiplier = TrafficMultiplier
    /\ extraction_time = ExtractionTime
    /\ \E n \in 0 .. MaxPrioOrders :
          orders \in PriorityOrders(StorageNodes(num_aisles, num_levels), n)
    /\ transaction_id = 0
    /\ robot_positions = <<>>
    /\ robot_assignment_counter = 0
    /\ tracking_data = <<>>
    /\ log_issues = <<>>
    /\ total_time = 0
    /\ avg_transaction_time = 0
    /\ last_path = <<>>
    /\ assigned = <<>>
    /\ BatchIdle
    /\ PrioIdle
    /\ RerouteIdle
    /\ MetricsIdle
    /\ TravelIdle

\* the call: line 444 keeps the location of every item
prioritize_orders ==
    /\ pc = "start"
    /\ \E got \in {GetAll(PutAll(orders, <<>>), <<>>)} :
          /\ popped' = got
          /\ prioritized_orders' = [i \in DOMAIN got |-> got[i][2]]
    /\ pc' = "returned"
    /\ UNCHANGED <<cfgVars, simVars, batchVars, rerouteVars, metricVars, travelVars>>

SpecPrio == InitPrio /\ [][prioritize_orders]_vars

-----------------------------------------------------------------------------
(* Claims about prioritize_orders, checked under SpecPrio *)

\* the orders of priority p, in their order of arrival
WithPriority(os, p) ==
    LET Test(o) == o[2] = p IN SelectSeq(os, Test)

\* the stable arrangement: ascending priority, arrival order within a priority
RECURSIVE StableFrom(_, _)
StableFrom(os, p) ==
    IF p > MaxPriority THEN <<>> ELSE WithPriority(os, p) \o StableFrom(os, p + 1)

\* C9: prioritize_orders is stable: of two orders with the same priority
\* the one that is earlier in the input is earlier in the output, so the
\* output is the locations of the input's stable arrangement.
C9_Stable ==
    pc = "returned" =>
        prioritized_orders =
            [i \in DOMAIN orders |-> StableFrom(orders, 1)[i][1]]

\* C10: the output of prioritize_orders is a permutation of the input
\* locations (same multiset, same length) whose priorities, those of the
\* items taken from the queue, are non-decreasing.
C10_SortedPermutation ==
    pc = "returned" =>
        /\ Len(prioritized_orders) = Len(orders)
        /\ \A o \in Range(orders) \cup {<<popped[i][2], popped[i][1]>> : i \in DOMAIN popped} :
               Count(orders, o) = Count(popped, <<o[2], o[1]>>)
        /\ \A x \in {orders[i][1] : i \in DOMAIN orders} \cup Range(prioritized_orders) :
               Count([i \in DOMAIN orders |-> orders[i][1]], x) = Count(prioritized_orders, x)
        /\ \A i \in DOMAIN popped : prioritized_orders[i] = popped[i][2]
        /\ \A i \in 1 .. Len(popped) - 1 : popped[i][1] <= popped[i + 1][1]

\* a call whose input was not in priority order
C10_Witness ==
    /\ pc = "returned"
    /\ Len(orders) >= 3
    /\ \E i, j \in DOMAIN orders : i < j /\ orders[i][2] > orders[j][2]
    /\ \E i \in DOMAIN orders : orders[i][1] # orders[1][1]

-----------------------------------------------------------------------------
(* simulate_transactions_with_tracking called with any robot count: the    *)
(* slider of main() starts at 1, the function takes what it is given.      *)

InitAnyRobots ==
    /\ pc = "start"
    /\ InitWarehouse
    /\ FnIdle
    /\ num_robots \in 0 .. MaxRobots
    /\ num_transactions \in 0 .. MaxOrders
    /\ traffic_multiplier = TrafficMultiplier
    /\ extraction_time = ExtractionTime
    /\ SimInitial

SpecAnyRobots == InitAnyRobots /\ [][NextSim]_vars

\* C11: with robot_count = 0 the simulator fails fast with a configuration
\* error before it processes any order: it neither goes on to generate and
\* process orders with the invalid value nor fails with an arithmetic fault.
C11_ZeroRobotsRejected ==
    num_robots = 0 => pc \notin {"loop", "done", "ZeroDivisionError"}

-----------------------------------------------------------------------------
(* Claims about the aggregates of the simulator *)

\* the sum of the field f over the records of a log
RECURSIVE SumField(_, _)
SumField(log, f) ==
    IF log = <<>> THEN 0 ELSE Head(log)[f] + SumField(Tail(log), f)

\* C12: skipped orders are excluded from the aggregates: the average the
\* simulator returns is the sum of the travel_time of the appended records
\* divided by the number of appended records (0 when there is none).
C12_AverageOverRecords ==
    pc = "done" =>
        avg_transaction_time =
            IF tracking_data = <<>> THEN 0
            ELSE SumField(tracking_data, "travel_time") \div Len(tracking_data)

-----------------------------------------------------------------------------
(* main(), lines 531-601: the simulation on the builder's graph and the    *)
(* metrics computed from its result.  Amounts of money: total_cost in      *)
(* 1/10000 dollar (delay in centiseconds times the rate in cents per       *)
(* second), costs per transaction in 1/1000 dollar; throughput and         *)
(* total_transactions in hundredths of a transaction.                      *)

\* line 340: the default of delay_cost_per_second, 0.05, in cents
delay_cost_per_second == 5
\* line 517
base_cost_per_robot == 20
\* line 549: upgrade_speed checked
upgrade_cost == 5
\* line 596: 0.1, in tenths
energy_consumption_per_meter == 1
\* line 597: maintenance_cost = num_robots * 2
MaintenancePerRobot == 2
\* line 584: total_transactions = throughput * 8
ShiftHours == 8

\* mutant: the cost of an entry does not depend on its delay
CostFlat(delay, rate) == rate

\* line 348: cost = delay * delay_cost_per_second
Cost(delay, rate) == delay * rate

\* mutant: the breakdown is keyed by the level of the storage node
LevelOf(entry) == entry.storage_node[2]

\* line 357: aisle = entry["storage_node"][0]
AisleOf(entry) == entry.storage_node[1]

\* lines 345-362: the loop over the entries, acc being the four totals
RECURSIVE AnalyzeEntries(_, _, _)
AnalyzeEntries(log, rate, acc) ==
    IF log = <<>> THEN acc
    ELSE LET entry    == Head(log)
             overlaps == entry.overlapping_robots
             delay    == entry.delay
             cost     == Cost(delay, rate)
             aisle    == AisleOf(entry)
             old      == IF aisle \in DOMAIN acc.overlap_summary
                         THEN acc.overlap_summary[aisle]
                         ELSE [overlaps |-> 0, delay |-> 0, cost |-> 0]
         IN  AnalyzeEntries(Tail(log), rate,
                 IF overlaps > 0
                 THEN [total_overlaps |-> acc.total_overlaps + overlaps,
                       total_delay    |-> acc.total_delay + delay,
                       total_cost     |-> acc.total_cost + cost,
                       overlap_summary |->
                           (aisle :> [overlaps |-> old.overlaps + overlaps,
                                      delay    |-> old.delay + delay,
                                      cost     |-> old.cost + cost])
                           @@ acc.overlap_summary]
                 ELSE acc)

\* lines 340-372; the definition of lines 98-131 is the same and is replaced
\* by this one when the module is loaded
analyze_robot_overlaps(log, rate) ==
    LET acc == AnalyzeEntries(log, rate,
                   [total_overlaps |-> 0, total_delay |-> 0, total_cost |-> 0,
                    overlap_summary |-> <<>>])
    IN  [total_overlaps  |-> acc.total_overlaps,
         total_delay     |-> acc.total_delay,
         average_delay   |-> IF acc.total_overlaps > 0
                             THEN acc.total_delay \div acc.total_overlaps ELSE 0,
         total_cost      |-> acc.total_cost,
         overlap_summary |-> acc.overlap_summary]

\* lines 582-587: throughput from the average (centiseconds)
Throughput(avg, R) == IF avg > 0 THEN ((3600 * 100 * 100) \div avg) * R ELSE 0

\* line 518: sum(entry["travel_time"] for entry in tracking_data)
RECURSIVE SumTravelTime(_)
SumTravelTime(log) ==
    IF log = <<>> THEN 0 ELSE Head(log).travel_time + SumTravelTime(Tail(log))

\* lines 514-528
calculate_cost_per_transaction(R, upgrade, total, energy, log, maintenance) ==
    LET distance_traveled == SumTravelTime(log)
        energy_cost == energy * distance_traveled
        system_cost == R * (base_cost_per_robot + upgrade) * 1000
                       + energy_cost + maintenance * 1000
    IN  IF total > 0 THEN (system_cost * 100) \div total ELSE 0

\* main() gives the simulator the builder's graph and one robot or more
InitMain ==
    /\ InitSim
    /\ tamper = "none"

\* lines 574-601.  The distance_traveled of lines 590-594 is computed from
\* paths that exist for every record and is used nowhere.
MainMetrics ==
    /\ pc = "done"
    /\ overlap_metrics' = analyze_robot_overlaps(tracking_data, delay_cost_per_second)
    /\ throughput' = Throughput(avg_transaction_time, num_robots)
    /\ total_transactions' = throughput' * ShiftHours
    /\ cost_per_transaction' =
           IF total_transactions' > 0
           THEN calculate_cost_per_transaction(num_robots, upgrade_cost,
                    total_transactions', energy_consumption_per_meter,
                    tracking_data, num_robots * MaintenancePerRobot)
           ELSE 0
    /\ pc' = "reported"
    /\ UNCHANGED <<cfgVars, simVars, batchVars, prioVars, rerouteVars, travelVars>>

NextMain == NextSim \/ MainMetrics

SpecMain == InitMain /\ [][NextMain]_vars

-----------------------------------------------------------------------------
(* Claims about main() and its metrics, checked under SpecMain *)

\* the sum over the records of a log of delay times rate
RECURSIVE SumDelayCost(_, _)
SumDelayCost(log, rate) ==
    IF log = <<>> THEN 0 ELSE Head(log).delay * rate + SumDelayCost(Tail(log), rate)

\* cost rates other than the default, in cents per second
CostRates == {0, delay_cost_per_second, 20}

C14_DegenerateInputs ==
    /\ pc # "ZeroDivisionError"
    /\ (orders = <<>> /\ pc \in {"done", "reported"}) =>
           /\ avg_transaction_time = 0
           /\ tracking_data = <<>>
           /\ Len(log_issues) = 1 /\ log_issues[1][1] = "no_orders"
    /\ analyze_robot_overlaps(<<>>, delay_cost_per_second).average_delay = 0
    /\ (pc = "reported"
        /\ \A i \in DOMAIN tracking_data : tracking_data[i].overlapping_robots = 0) =>
           overlap_metrics.average_delay = 0
    /\ (pc = "reported" /\ avg_transaction_time = 0) =>
           throughput = 0 /\ total_transactions = 0
    /\ calculate_cost_per_transaction(num_robots, upgrade_cost, 0,
           energy_consumption_per_meter, tracking_data,
           num_robots * MaintenancePerRobot) = 0

\* the metrics of a run of zero orders
C14_Witness ==
    /\ pc = "reported"
    /\ num_transactions = 0
    /\ orders = <<>>
    /\ throughput = 0

\* the weight of a sequence of nodes of g: the sum of the weights of its edges
RECURSIVE PathWeight(_, _)
PathWeight(g, p) ==
    IF Len(p) <= 1 THEN 0
    ELSE g.weight[<<p[1], p[2]>>] + PathWeight(g, Tail(p))

\* p is a path of g from s to t of the least weight
IsShortestPath(g, p, s, t) ==
    /\ p # <<>>
    /\ p[1] = s
    /\ p[Len(p)] = t
    /\ \A i \in 1 .. Len(p) - 1 : <<p[i], p[i + 1]>> \in Edges(g)
    /\ \E d \in {Dist(g, s)} : t \in DOMAIN d /\ PathWeight(g, p) = d[t]

\* C20: for every appended record, travel_time is (nodes of the outbound
\* path + nodes of the return path) x traffic multiplier + extraction time,
\* the paths being shortest paths robot position -> target and target ->
\* depot, and total_transaction_time is travel_time + delay.  Records are
\* never changed once appended, so the paths are checked for the record
\* that was appended last, while last_path is its total_path.
C20_RecordTimes ==
    /\ \A i \in DOMAIN tracking_data :
           tracking_data[i].total_transaction_time =
               tracking_data[i].travel_time + tracking_data[i].delay
    /\ (tracking_data # <<>>
        /\ tracking_data[Len(tracking_data)].transaction_id = transaction_id - 1) =>
           LET record == tracking_data[Len(tracking_data)]
           IN  \E k \in 1 .. Len(last_path) - 1 :
                   /\ IsShortestPath(graph, SubSeq(last_path, 1, k),
                                     record.start_node, record.storage_node)
                   /\ IsShortestPath(graph, SubSeq(last_path, k + 1, Len(last_path)),
                                     record.storage_node, fulfillment_zone)
                   /\ record.travel_time =
                          Len(last_path) * traffic_multiplier * 10
                          + extraction_time * 100

\* a record whose outbound path has more than two nodes
C20_Witness ==
    /\ tracking_data # <<>>
    /\ tracking_data[Len(tracking_data)].transaction_id = transaction_id - 1
    /\ Len(last_path) >= 5
    /\ tracking_data[Len(tracking_data)].delay > 0

-----------------------------------------------------------------------------
(* Claim about the orders batch_orders drops, checked under SpecBatch *)

\* C15: batch_orders drops an order only if that order has no path from the
\* batch anchor, the last order added to the batch being built: an order
\* that can be reached from the anchor is never dropped; every drop is
\* logged and the call returns.
C15_DroppedOnlyIfUnreachable ==
    pc = "returned" =>
        /\ Len(skip_anchors) = Len(skipped_orders)
        /\ \A i \in DOMAIN skipped_orders :
               skipped_orders[i] \notin ReachAvoiding(graph, {}, {skip_anchors[i]})

-----------------------------------------------------------------------------
(* Claim about the shared graph, checked under SpecReroute *)

\* C16: every call of dynamic_rerouting, for any blocked set and whether or
\* not a path is found, leaves the caller's graph as it was: the same nodes,
\* the same edges, the same weights.  (The simulator only reads its graph:
\* none of its steps assigns it.)
C16_GraphUnchanged ==
    graph = GraphArgument(num_aisles, num_levels, heatmap, tamper)

\* a call that removed nodes from its copy and found no path
C16_Witness ==
    /\ pc = "returned"
    /\ blocked_nodes # {}
    /\ rerouted_path = None
    /\ source \notin blocked_nodes

-----------------------------------------------------------------------------
(* create_warehouse_graph called by main(), lines 557-562, for any heatmap *)

\* lines 9-10: one factor per storage node, each drawn on its own
Heatmaps(A, L) == [StorageNodes(A, L) -> HeatFactors]

\* line 29: nx.DiGraph()
DiGraph == [nodes |-> {}, weight |-> <<>>]

InitBuild ==
    /\ pc = "start"
    /\ num_aisles \in 1 .. MaxAisles
    /\ num_levels \in 1 .. MaxLevels
    /\ num_aisles * num_levels <= MaxCells
    /\ heatmap \in Heatmaps(num_aisles, num_levels)
    /\ tamper = "none"
    /\ graph = DiGraph
    /\ SimIdle
    /\ FnIdle

BuildGraph ==
    /\ pc = "start"
    /\ graph' = BuiltGraph(num_aisles, num_levels, heatmap)
    /\ pc' = "built"
    /\ UNCHANGED <<num_aisles, num_levels, heatmap, tamper, simVars, fnVars>>

SpecBuild == InitBuild /\ [][BuildGraph]_vars

\* C17: the nodes of the built graph are the num_aisles x num_levels storage
\* nodes and the depot.  Two storage nodes are joined by an edge exactly when
\* they are in the same aisle at adjacent levels, or at the same level, 0 or
\* num_levels - 1, in adjacent aisles; a storage node has an edge to the
\* depot and one from it exactly when its level is 0 or num_levels - 1;
\* every edge has its reverse and no edge is a self-loop.
C17_GridStructure ==
    pc = "built" =>
        LET S == {<<a, l>> : a \in 0 .. num_aisles - 1, l \in 0 .. num_levels - 1}
            E == DOMAIN graph.weight
            Boundary(l) == l = 0 \/ l = num_levels - 1
        IN  /\ graph.nodes = S \cup {fulfillment_zone}
            /\ E \subseteq graph.nodes \X graph.nodes
            /\ \A u, v \in S :
                   <<u, v>> \in E <=>
                       \/ u[1] = v[1] /\ Abs(u[2] - v[2]) = 1
                       \/ u[2] = v[2] /\ Abs(u[1] - v[1]) = 1 /\ Boundary(u[2])
            /\ \A u \in S :
                   /\ <<u, fulfillment_zone>> \in E <=> Boundary(u[2])
                   /\ <<fulfillment_zone, u>> \in E <=> Boundary(u[2])
            /\ \A e \in E : <<e[2], e[1]>> \in E /\ e[1] # e[2]

\* a built grid with an aisle to cross and a level that is neither the
\* first nor the last
C17_Witness ==
    /\ pc = "built"
    /\ num_aisles >= 2
    /\ num_levels >= 3
    /\ <<<<0, 1>>, <<0, 2>>>> \in DOMAIN graph.weight

-----------------------------------------------------------------------------
(* calculate_adjusted_travel_time called on its own, lines 13-19 *)

\* the multipliers and factors of the calls, in tenths
Factors == {5 * k : k \in -1 .. MaxFactorSteps}

InitTravel ==
    /\ pc = "start"
    /\ num_aisles = 1
    /\ num_levels = 1
    /\ heatmap = [n \in StorageNodes(num_aisles, num_levels) |-> 10]
    /\ tamper = "none"
    /\ graph = GraphArgument(num_aisles, num_levels, heatmap, tamper)
    /\ num_robots = 1
    /\ num_transactions = 0
    /\ traffic_multiplier \in Factors
    /\ extraction_time = ExtractionTime
    /\ SimInitial
    /\ BatchIdle
    /\ PrioIdle
    /\ RerouteIdle
    /\ MetricsIdle
    /\ distance_x \in 0 .. MaxDistance
    /\ distance_z \in 0 .. MaxDistance
    /\ heatmap_factor \in Factors
    /\ adjusted_time = 0

AdjustTravelTime ==
    /\ pc = "start"
    /\ adjusted_time' =
           calculate_adjusted_travel_time(distance_x, 1, distance_z, 1, accel_x,
               accel_z, traffic_multiplier, heatmap_factor)
    /\ pc' = "returned"
    /\ UNCHANGED <<cfgVars, simVars, batchVars, prioVars, rerouteVars, metricVars,
                   distance_x, distance_z, heatmap_factor>>

SpecTravel == InitTravel /\ [][AdjustTravelTime]_vars

\* C19: the traffic multiplier and the heatmap factor are clamped to 1.0:
\* for the same distances and accelerations a multiplier or factor below 1.0
\* gives the result of 1.0, the result is never below the unadjusted
\* kinematic time, and it does not decrease when the multiplier or the
\* factor grows.
C19_ClampedAndMonotone ==
    pc = "returned" =>
        LET Time(tm, hf) ==
                calculate_adjusted_travel_time(distance_x, 1, distance_z, 1,
                    accel_x, accel_z, tm, hf)
        IN  /\ traffic_multiplier < 10 =>
                   adjusted_time = Time(10, heatmap_factor)
            /\ heatmap_factor < 10 =>
                   adjusted_time = Time(traffic_multiplier, 10)
            /\ adjusted_time >= KinematicTime(distance_x, 1, accel_x)
                                + KinematicTime(distance_z, 1, accel_z)
            /\ \A tm \in Factors :
                   tm <= traffic_multiplier => Time(tm, heatmap_factor) <= adjusted_time
            /\ \A hf \in Factors :
                   hf <= heatmap_factor => Time(traffic_multiplier, hf) <= adjusted_time

\* a call with a multiplier below 1.0, a factor above it and a way to go
C19_Witness ==
    /\ pc = "returned"
    /\ traffic_multiplier < 10
    /\ heatmap_factor > 10
    /\ distance_x > 0
    /\ adjusted_time > 0

-----------------------------------------------------------------------------
(* The coarse script, src/Spyder_Robo.py: every storage node has one edge  *)
(* to the retrieval point, and a case is one simulation followed by its    *)
(* metrics (run_cases, lines 54-84).  The script's speeds and              *)
(* accelerations are those of aisle_length .. accel_z above.               *)

\* line 13: the node "Retrieval"
Retrieval == <<-2, -2>>

\* lines 28-31
calculate_travel_time(dxNum, dxDen, dzNum, dzDen, ax10, az10) ==
    KinematicTime(dxNum, dxDen, ax10) + KinematicTime(dzNum, dzDen, az10)

\* lines 6-25: create_warehouse_graph of the coarse script
CoarseGraph(A, L) ==
    [nodes  |-> StorageNodes(A, L) \cup {Retrieval},
     weight |-> [e \in {<<n, Retrieval>> : n \in StorageNodes(A, L)} |->
                   calculate_travel_time(aisle_length * e[1][1], A,
                                         level_height * e[1][2], L,
                                         accel_x, accel_z)]]

\* lines 34-35
calculate_transaction_time(travel_time, ext) == travel_time + ext * 100

\* lines 45-50: the total of the transactions to the storage nodes picked
RECURSIVE CoarseTotal(_, _, _)
CoarseTotal(g, picks, ext) ==
    IF picks = <<>> THEN 0
    ELSE calculate_transaction_time(Dist(g, Head(picks))[Retrieval], ext)
         + CoarseTotal(g, Tail(picks), ext)

InitCoarse ==
    /\ pc = "start"
    /\ num_aisles \in 1 .. MaxAisles
    /\ num_levels \in 1 .. MaxLevels
    /\ num_aisles * num_levels <= MaxCells
    /\ heatmap = <<>>
    /\ tamper = "none"
    /\ graph = CoarseGraph(num_aisles, num_levels)
    /\ num_robots \in 1 .. MaxRobots
    /\ num_transactions \in 0 .. MaxOrders
    /\ traffic_multiplier = 10
    /\ extraction_time \in 0 .. ExtractionTime
    /\ SimInitial
    /\ FnIdle

\* lines 43-51: simulate_transactions; line 51 divides by num_transactions
simulate_transactions ==
    /\ pc = "start"
    /\ IF num_transactions = 0
       THEN /\ pc' = "ZeroDivisionError"
            /\ UNCHANGED <<orders, total_time, avg_transaction_time>>
       ELSE /\ orders' \in Choices(graph.nodes \ {Retrieval}, num_transactions)
            /\ total_time' = CoarseTotal(graph, orders', extraction_time)
            /\ avg_transaction_time' = total_time' \div num_transactions
            /\ pc' = "simulated"
    /\ UNCHANGED <<cfgVars, fnVars, num_robots, traffic_multiplier, extraction_time,
                   num_transactions, transaction_id, robot_positions,
                   robot_assignment_counter, tracking_data, log_issues,
                   last_path, assigned>>

\* lines 37-40: calculate_cost_per_transaction of the coarse script, for
\* total_transactions other than 0, in 1/1000 dollar
CoarseCostPerTransaction(R, upgrade, total) ==
    (R * (base_cost_per_robot + upgrade) * 1000 * 100) \div total

\* lines 63-73: the metrics of a case; lines 69 and 40 divide
run_case ==
    /\ pc = "simulated"
    /\ IF avg_transaction_time = 0
       THEN /\ pc' = "ZeroDivisionError"
            /\ UNCHANGED <<throughput, total_transactions, cost_per_transaction>>
       ELSE /\ throughput' = (3600 * 100 * 100) \div avg_transaction_time
            /\ total_transactions' = throughput' * ShiftHours
            /\ IF total_transactions' = 0
               THEN /\ pc' = "ZeroDivisionError"
                    /\ cost_per_transaction' = cost_per_transaction
               ELSE /\ cost_per_transaction' =
                           CoarseCostPerTransaction(num_robots,
                               IF extraction_time < 2 THEN upgrade_cost ELSE 0,
                               total_transactions')
                    /\ pc' = "reported"
    /\ UNCHANGED <<cfgVars, simVars, batchVars, prioVars, rerouteVars, travelVars,
                   overlap_metrics>>

NextCoarse == simulate_transactions \/ run_case

SpecCoarse == InitCoarse /\ [][NextCoarse]_vars

\* C18: in the coarse script zero transactions or zero total time give a
\* defined value, never a division fault: simulate_transactions with
\* num_transactions = 0, run_cases for an average of 0 and
\* calculate_cost_per_transaction for total_transactions = 0 all return.
C18_CoarseNoDivisionFault ==
    pc # "ZeroDivisionError"

-----------------------------------------------------------------------------
(* simulate_transactions_with_tracking for the traffic multipliers of the  *)
(* slider of line 546, which runs from 1.0 to 2.0                          *)

\* line 546: the ends of the slider, in tenths
TrafficMultipliers == {10, 20}

InitTraffic ==
    /\ pc = "start"
    /\ InitWarehouse
    /\ FnIdle
    /\ num_robots \in 1 .. MaxRobots
    /\ num_transactions \in 0 .. MaxOrders
    /\ traffic_multiplier \in TrafficMultipliers
    /\ extraction_time = ExtractionTime
    /\ SimInitial

SpecTraffic == InitTraffic /\ [][NextSim]_vars

\* C21: in every record the delay is 0 whenever the overlap count is 0; with
\* exactly one robot every record has overlap count 0 and delay 0; with more
\* than one robot and a traffic multiplier of 1.0 or more, the delay of a
\* record with overlap count k >= 1 lies between 1.5 * k * multiplier and
\* 3.5 * k * multiplier (delays in centiseconds, multipliers in tenths).
C21_DelayBounds ==
    \A i \in DOMAIN tracking_data :
        LET k     == tracking_data[i].overlapping_robots
            delay == tracking_data[i].delay
        IN  /\ k = 0 => delay = 0
            /\ num_robots = 1 => (k = 0 /\ delay = 0)
            /\ (num_robots > 1 /\ traffic_multiplier >= 10 /\ k >= 1) =>
                   /\ 15 * k * traffic_multiplier <= delay
                   /\ delay <= 35 * k * traffic_multiplier

\* with two robots or more and a multiplier of 2.0, a log with a record
\* without overlap and a record with two overlaps delayed by the most
C21_Witness ==
    /\ num_robots > 1
    /\ traffic_multiplier = 20
    /\ \E i \in DOMAIN tracking_data : tracking_data[i].overlapping_robots = 0
    /\ \E i \in DOMAIN tracking_data :
          /\ tracking_data[i].overlapping_robots = 2
          /\ tracking_data[i].delay = 35 * 2 * 20

\* C23: the transaction log is append-only: a step leaves every record of
\* the log as it was and removes none; the transaction ids of the log are
\* strictly increasing, each is the index of its order in the workload, and
\* the robot_id of every record is its transaction_id modulo the robot
\* count, also when earlier orders were skipped.
C23_LogAppendOnly ==
    [][/\ Len(tracking_data') >= Len(tracking_data)
       /\ SubSeq(tracking_data', 1, Len(tracking_data)) = tracking_data
       /\ \A i \in DOMAIN tracking_data' :
             LET record == tracking_data'[i]
             IN  /\ record.transaction_id \in 0 .. Len(orders') - 1
                 /\ orders'[record.transaction_id + 1] = record.storage_node
                 /\ i > 1 => tracking_data'[i - 1].transaction_id < record.transaction_id
                 /\ record.robot_id = record.transaction_id % num_robots'
      ]_vars

\* a log of two robots whose first record is the second order, the first
\* order having been skipped, followed by another record
C23_Witness ==
    /\ num_robots = 2
    /\ Len(tracking_data) >= 2
    /\ tracking_data[1].transaction_id = 1
    /\ tracking_data[1].robot_id = 1
    /\ "no_path" \in IssueKinds

\* C24: at every point of a run every robot is at the Fulfillment Zone, and
\* the start_node of every record of the log is the Fulfillment Zone.
C24_RobotsAtDepot ==
    /\ \A r \in DOMAIN robot_positions : robot_positions[r] = fulfillment_zone
    /\ \A i \in DOMAIN tracking_data :
          tracking_data[i].start_node = fulfillment_zone

\* two robots in the middle of a run, each with an order served
C24_Witness ==
    /\ pc = "loop"
    /\ num_robots = 2
    /\ \A r \in DOMAIN robot_positions : robot_positions[r] = fulfillment_zone
    /\ \E i \in DOMAIN tracking_data, j \in DOMAIN tracking_data :
          tracking_data[i].robot_id = 0 /\ tracking_data[j].robot_id = 1

-----------------------------------------------------------------------------
(* batch_orders, lines 68-84, one loop iteration at a time.  pc is "start" *)
(* or "outer" at the test of the outer loop (line 70) and "inner" at the   *)
(* test of the inner loop (line 72).                                       *)

\* batch_orders reads no weight of the graph (line 76 has no weight
\* argument), so the heatmap is the one of factor 1.0
InitBatchSteps ==
    /\ pc = "start"
    /\ InitWarehouse
    /\ \A n \in DOMAIN heatmap : heatmap[n] = 10
    /\ num_robots = 1
    /\ num_transactions = 0
    /\ traffic_multiplier = TrafficMultiplier
    /\ extraction_time = ExtractionTime
    /\ \E n \in 0 .. MaxOrders :
          orders \in Choices({m \in graph.nodes : IsTuple(m)}, n)
    /\ transaction_id = 0
    /\ robot_positions = <<>>
    /\ robot_assignment_counter = 0
    /\ tracking_data = <<>>
    /\ log_issues = <<>>
    /\ total_time = 0
    /\ avg_transaction_time = 0
    /\ last_path = <<>>
    /\ assigned = <<>>
    /\ batch_size \in -1 .. MaxBatchSize
    /\ batched_orders = <<>>
    /\ skipped_orders = <<>>
    /\ input_orders = orders
    /\ skip_anchors = <<>>
    /\ cur_batch = <<>>
    /\ PrioIdle
    /\ RerouteIdle
    /\ MetricsIdle
    /\ TravelIdle

\* lines 70-71 and 84: the test of the outer loop, then the seed of a batch
\* or the return
BatchOuter ==
    /\ pc \in {"start", "outer"}
    /\ IF orders = <<>>
       THEN /\ pc' = "returned"
            /\ UNCHANGED <<orders, cur_batch>>
       ELSE /\ cur_batch' = <<orders[1]>>
            /\ orders' = Tail(orders)
            /\ pc' = "inner"
    /\ UNCHANGED <<cfgVars, num_robots, traffic_multiplier, extraction_time,
                   num_transactions, transaction_id, robot_positions,
                   robot_assignment_counter, tracking_data, log_issues, total_time,
                   avg_transaction_time, last_path, assigned,
                   batch_size, batched_orders, skipped_orders, input_orders,
                   skip_anchors, prioVars, rerouteVars, metricVars, travelVars>>

\* lines 72-83: the test of the inner loop, then one iteration of it or the
\* end of the batch
BatchInner ==
    /\ pc = "inner"
    /\ IF ~BatchOpen(cur_batch, batch_size, orders)
       THEN \* line 83
            /\ batched_orders' = Append(batched_orders, cur_batch)
            /\ pc' = "outer"
            /\ UNCHANGED <<orders, cur_batch, skipped_orders, skip_anchors>>
       ELSE /\ pc' = "inner"
            /\ batched_orders' = batched_orders
            /\ IF ClosestRaises(graph, cur_batch[Len(cur_batch)], orders)
               THEN \* lines 80-82
                    /\ skipped_orders' = Append(skipped_orders, orders[1])
                    /\ skip_anchors' = Append(skip_anchors, cur_batch[Len(cur_batch)])
                    /\ orders' = Tail(orders)
                    /\ cur_batch' = cur_batch
               ELSE \* lines 74-79
                    \E i \in {ClosestIndex(graph, cur_batch[Len(cur_batch)], orders)} :
                       /\ cur_batch' = Append(cur_batch, orders[i])
                       /\ orders' = RemoveAt(orders, i)
                       /\ UNCHANGED <<skipped_orders, skip_anchors>>
    /\ UNCHANGED <<cfgVars, num_robots, traffic_multiplier, extraction_time,
                   num_transactions, transaction_id, robot_positions,
                   robot_assignment_counter, tracking_data, log_issues, total_time,
                   avg_transaction_time, last_path, assigned,
                   batch_size, input_orders,
                   prioVars, rerouteVars, metricVars, travelVars>>

NextBatchSteps == BatchOuter \/ BatchInner

\* the call runs on: nothing in it waits
SpecBatchSteps ==
    InitBatchSteps /\ [][NextBatchSteps]_vars /\ WF_vars(NextBatchSteps)

\* C25: batch_orders terminates for every order list over nodes of the
\* graph, for every batch size, those of 0 and less included, and whether or
\* not there are paths between the orders: every iteration of either loop
\* (every step that leads to the test of the inner loop) takes at least one
\* order off the pending list, and the call returns with the list empty.
C25_BatchTerminates ==
    /\ [][pc' = "inner" => Len(orders') < Len(orders)]_vars
    /\ [](pc = "returned" => orders = <<>>)
    /\ <>(pc = "returned")

\* a call that has returned after dropping an order out of three or more
C25_Witness ==
    /\ pc = "returned"
    /\ orders = <<>>
    /\ Len(input_orders) >= 3
    /\ skipped_orders # <<>>
    /\ batched_orders # <<>>

\* C22: where every remaining order can be reached from the last order of
\* the batch, an iteration of the inner loop appends to the batch one of the
\* remaining orders, takes it off the remaining orders, and no remaining
\* order has a shorter shortest path length from that last order; the seed
\* of a batch is the first of the remaining orders.
C22_ClosestAppended ==
    [][/\ (pc \in {"start", "outer"} /\ orders # <<>>) =>
              cur_batch' = <<Head(orders)>>
       /\ (pc = "inner" /\ pc' = "inner"
           /\ \A j \in DOMAIN orders :
                 orders[j] \in DOMAIN HopDist(graph, cur_batch[Len(cur_batch)])) =>
              LET last == cur_batch[Len(cur_batch)]
                  new  == cur_batch'[Len(cur_batch')]
              IN  /\ Len(cur_batch') = Len(cur_batch) + 1
                  /\ SubSeq(cur_batch', 1, Len(cur_batch)) = cur_batch
                  /\ \E i \in DOMAIN orders :
                        orders[i] = new /\ orders' = RemoveAt(orders, i)
                  /\ \A j \in DOMAIN orders :
                        shortest_path_length(graph, last, new)
                            <= shortest_path_length(graph, last, orders[j])
      ]_vars

\* on the builder's graph a batch has taken as its second order one that
\* is closer to its seed than the order that came first in the list
C22_Witness ==
    /\ pc = "inner"
    /\ tamper = "none"
    /\ Len(cur_batch) >= 2
    /\ orders # <<>>
    /\ input_orders[2] = orders[1]
    /\ shortest_path_length(graph, cur_batch[1], cur_batch[2])
           < shortest_path_length(graph, cur_batch[1], orders[1])

-----------------------------------------------------------------------------
(* analyze_robot_overlaps, lines 340-372, called with any log: a record is *)
(* given by the three fields the function reads.                           *)

MaxLogLen == 3
MaxOverlap == 1

\* storage nodes of two aisles, two of them in one aisle
LogNodes == {<<0, 0>>, <<1, 0>>, <<1, 1>>}

\* delays of a record, in centiseconds
LogDelays == {0, 150}

LogRecords ==
    [storage_node : LogNodes, overlapping_robots : 0 .. MaxOverlap, delay : LogDelays]

RECURSIVE Logs(_)
Logs(n) ==
    IF n = 0 THEN {<<>>}
    ELSE Logs(n - 1) \cup {Append(log, r) : log \in Logs(n - 1), r \in LogRecords}

InitAnalyze ==
    /\ pc = "start"
    /\ num_aisles = 2
    /\ num_levels = 2
    /\ heatmap = [n \in StorageNodes(num_aisles, num_levels) |-> 10]
    /\ tamper = "none"
    /\ graph = GraphArgument(num_aisles, num_levels, heatmap, tamper)
    /\ num_robots = 1
    /\ num_transactions = 0
    /\ traffic_multiplier = TrafficMultiplier
    /\ extraction_time = ExtractionTime
    /\ orders = <<>>
    /\ transaction_id = 0
    /\ robot_positions = <<>>
    /\ robot_assignment_counter = 0
    /\ tracking_data \in Logs(MaxLogLen)
    /\ log_issues = <<>>
    /\ total_time = 0
    /\ avg_transaction_time = 0
    /\ last_path = <<>>
    /\ assigned = <<>>
    /\ FnIdle

\* the call with the default rate; the function reads the entries of the
\* log and assigns to none of them
AnalyzeLog ==
    /\ pc = "start"
    /\ overlap_metrics' = analyze_robot_overlaps(tracking_data, delay_cost_per_second)
    /\ tracking_data' = tracking_data
    /\ pc' = "analyzed"
    /\ UNCHANGED <<cfgVars, num_robots, traffic_multiplier, extraction_time,
                   num_transactions, orders, transaction_id, robot_positions,
                   robot_assignment_counter, log_issues, total_time,
                   avg_transaction_time, last_path, assigned,
                   batchVars, prioVars, rerouteVars, travelVars,
                   throughput, total_transactions, cost_per_transaction>>

SpecAnalyze == InitAnalyze /\ [][AnalyzeLog]_vars

\* the sum of one field of the breakdown over a set of its keys
RECURSIVE SumOverAisles(_, _, _)
SumOverAisles(summary, field, aisles) ==
    IF aisles = {} THEN 0
    ELSE LET a == CHOOSE x \in aisles : TRUE
         IN  summary[a][field] + SumOverAisles(summary, field, aisles \ {a})

\* C26: the per-aisle breakdown agrees with the totals: its overlaps sum to
\* total_overlaps, its delays to total_delay, its costs to total_cost; an
\* aisle is a key of it exactly when a record for a storage node of that
\* aisle has a positive overlap count; and the call leaves the log as it was.
C26_BreakdownConsistent ==
    /\ [](pc = "analyzed" =>
            LET summary == overlap_metrics.overlap_summary
                aisles  == DOMAIN summary
            IN  /\ SumOverAisles(summary, "overlaps", aisles)
                       = overlap_metrics.total_overlaps
                /\ SumOverAisles(summary, "delay", aisles)
                       = overlap_metrics.total_delay
                /\ SumOverAisles(summary, "cost", aisles)
                       = overlap_metrics.total_cost
                /\ aisles = {tracking_data[i].storage_node[1] :
                                i \in {j \in DOMAIN tracking_data :
                                          tracking_data[j].overlapping_robots > 0}})
    /\ [][tracking_data' = tracking_data]_vars

\* the metrics of a log of two overlapped records for different storage
\* nodes of aisle 1 and a delayed record without overlap for aisle 0
C26_Witness ==
    /\ pc = "analyzed"
    /\ DOMAIN overlap_metrics.overlap_summary = {1}
    /\ overlap_metrics.overlap_summary[1].overlaps >= 2
    /\ overlap_metrics.total_delay > 0
    /\ \E i \in DOMAIN tracking_data, j \in DOMAIN tracking_data :
          /\ tracking_data[i].storage_node = <<1, 0>>
          /\ tracking_data[j].storage_node = <<1, 1>>
          /\ tracking_data[i].overlapping_robots > 0
          /\ tracking_data[j].overlapping_robots > 0
    /\ \E i \in DOMAIN tracking_data :
          /\ tracking_data[i].storage_node[1] = 0
          /\ tracking_data[i].overlapping_robots = 0
          /\ tracking_data[i].delay > 0

=============================================================================
